---- MODULE Spec2Model ----
(***************************************************************************)
(* Commit-range resolution of copilot-sprint-summary (src/gitRange):       *)
(* normalizeHash, collectAncestorHashes and getCommitsForSelection, run    *)
(* against an external repository object (repo.log, repo.getCommit).       *)
(*                                                                         *)
(* A JavaScript string is a sequence of one-character strings, so that     *)
(* trimming is computed and not assumed.  `undefined` is Undefined.  An    *)
(* optional Date is a set holding at most one timestamp.                   *)
(***************************************************************************)
EXTENDS Integers, Sequences, FiniteSets, TLC

VARIABLES
    repoCommits,      \* repo.getCommit: identifier -> [ok, parents]
    repoParentForms,  \* how the backend writes the i-th parent of a commit
    repoLog,          \* repo.log: [ok, commits]
    selection,        \* argument of getCommitsForSelection
    startHash,        \* argument of collectAncestorHashes / of normalizeHash
    maxCommits,       \* argument of collectAncestorHashes
    caller,           \* who called collectAncestorHashes
    pc,               \* position of the (single) call in flight
    headCommits,      \* getCommitsForSelection: const headCommits
    visited,          \* collectAncestorHashes: const visited
    queue,            \* collectAncestorHashes: const queue
    hash,             \* collectAncestorHashes: const hash (loop body)
    targetHashes,     \* value returned by collectAncestorHashes
    result,           \* list returned by getCommitsForSelection
    thrown,           \* error the call rejected with
    getCommitCalls,   \* identifiers repo.getCommit was called with, in order
    getCommitErrors,  \* identifiers for which repo.getCommit threw
    logCalls,         \* number of repo.log calls
    pending,          \* repository queries of the call issued and not yet settled
    other,            \* a second collectAncestorHashes call in flight: its locals
    norms             \* successive results of normalizeHash

vars == <<repoCommits, repoParentForms, repoLog, selection, startHash, maxCommits,
          caller, pc, headCommits, visited, queue, hash, targetHashes, result,
          thrown, getCommitCalls, getCommitErrors, logCalls, pending, other, norms>>

----------------------------------------------------------------------------
(* Bounds of the model *)

\* MAX_LOG_ENTRIES is 200 in the source (line 26); scaled down so that the
\* cap is reached on graphs of three commits.
MAX_LOG_ENTRIES == 2
\* largest maxCommits of a direct collectAncestorHashes call
MaxCap == 4
\* timestamps are 0..MaxDate
MaxDate == 2
\* longest string given to normalizeHash on its own
MaxLen == 4

----------------------------------------------------------------------------
(* Strings *)

Undefined == <<"undefined">>

Whitespace == {" ", "\t"}

\* JavaScript truthiness of a string | undefined
Truthy(s) == s # Undefined /\ s # <<>>

RECURSIVE TrimStart(_)
TrimStart(s) ==
    IF s # <<>> /\ Head(s) \in Whitespace THEN TrimStart(Tail(s)) ELSE s

RECURSIVE TrimEnd(_)
TrimEnd(s) ==
    IF s # <<>> /\ s[Len(s)] \in Whitespace
    THEN TrimEnd(SubSeq(s, 1, Len(s) - 1))
    ELSE s

\* String.prototype.trim
Trim(s) == TrimEnd(TrimStart(s))

\* a plausible slip: trimStart() instead of trim()
normalizeHashLeadingOnly(h) ==
    IF ~Truthy(h) THEN Undefined
    ELSE LET trimmed == TrimStart(h) IN
         IF Truthy(trimmed) THEN trimmed ELSE Undefined

normalizeHash(h) ==
    IF ~Truthy(h) THEN Undefined
    ELSE LET trimmed == Trim(h) IN
         IF Truthy(trimmed) THEN trimmed ELSE Undefined

----------------------------------------------------------------------------
(* Commits *)

\* Date of an optional timestamp
DateOf(d) == CHOOSE t \in d : TRUE

getCommitDate(commit) ==
    IF commit.authorDate # {} THEN DateOf(commit.authorDate)
    ELSE IF commit.commitDate # {} THEN DateOf(commit.commitDate)
    ELSE 0

\* lines 40-49, returning the commit as it came from the log
normalizeCommitAsIs(commit) == commit

normalizeCommit(commit) ==
    LET normalizedHash == normalizeHash(commit.hash) IN
    IF Truthy(normalizedHash) /\ normalizedHash # commit.hash
    THEN [commit EXCEPT !.hash = normalizedHash]
    ELSE commit

\* lines 51-68, with the sha key looked at before the hash key
normalizeParentHashShaFirst(parent) ==
    IF parent.kind = "null" \/ (parent.kind = "string" /\ parent.str = <<>>)
    THEN Undefined
    ELSE IF parent.kind = "string" THEN parent.str
    ELSE IF parent.sha # Undefined THEN parent.sha
    ELSE IF parent.hash # Undefined THEN parent.hash
    ELSE IF parent.commit # Undefined THEN parent.commit
    ELSE Undefined

\* parent: [kind: "null" | "string" | "object", str, hash, sha, commit]
normalizeParentHash(parent) ==
    IF parent.kind = "null" \/ (parent.kind = "string" /\ parent.str = <<>>)
    THEN Undefined
    ELSE IF parent.kind = "string" THEN parent.str
    ELSE IF parent.hash # Undefined THEN parent.hash
    ELSE IF parent.sha # Undefined THEN parent.sha
    ELSE IF parent.commit # Undefined THEN parent.commit
    ELSE Undefined

----------------------------------------------------------------------------
(* The repository (external collaborator) *)

Range(f) == {f[i] : i \in DOMAIN f}

\* the commits the repository knows
Ids == {<<"a">>, <<"b">>, <<"c">>}

\* parent lists: no parent (root), one, or two distinct parents (merge)
ParentLists ==
    {<<>>} \cup {<<y>> : y \in Ids}
           \cup {l \in {<<y, z>> : y \in Ids, z \in Ids} : l[1] # l[2]}

\* what repo.getCommit does for an identifier: throw, or a commit with parents
Outcomes ==
    {[ok |-> FALSE, parents |-> <<>>]} \cup {[ok |-> TRUE, parents |-> l] : l \in ParentLists}

\* every graph over Ids (cycles included) in which no commit is its own parent
CommitTables ==
    {t \in [Ids -> Outcomes] : \A x \in Ids : x \notin Range(t[x].parents)}

\* shapes in which a backend reports a parent (normalizeParentHash accepts a bare
\* string or an object with hash, sha or commit)
NoParent == [kind |-> "null", str |-> Undefined, hash |-> Undefined,
             sha |-> Undefined, commit |-> Undefined]

ParentAs(form, id) ==
    CASE form = "str"       -> [NoParent EXCEPT !.kind = "string", !.str = id]
      [] form = "strPad"    -> [NoParent EXCEPT !.kind = "string",
                                                !.str = <<" ">> \o id \o <<"\t">>]
      [] form = "strBlank"  -> [NoParent EXCEPT !.kind = "string", !.str = <<" ">>]
      [] form = "objHash"   -> [NoParent EXCEPT !.kind = "object", !.hash = id,
                                                !.sha = <<"z">>]
      [] form = "objSha"    -> [NoParent EXCEPT !.kind = "object",
                                                !.sha = id \o <<" ">>,
                                                !.commit = <<"z">>]
      [] form = "objCommit" -> [NoParent EXCEPT !.kind = "object", !.commit = id]
      [] form = "objNone"   -> [NoParent EXCEPT !.kind = "object"]
      [] OTHER              -> NoParent

\* the forms that carry the parent's identifier
IdForms == {"str", "strPad", "objHash", "objSha", "objCommit"}

\* form of the first and of the second parent
ParentFormStyles ==
    { <<"str", "str">>, <<"str", "strPad">>, <<"objHash", "objSha">>,
      <<"objCommit", "objNone">>, <<"strPad", "strBlank">>, <<"null", "str">>,
      <<"objHash", "strPad">> }

\* repo.getCommit(h) resolves
getCommitOk(h) == h \in DOMAIN repoCommits /\ repoCommits[h].ok

\* the commit repo.getCommit(h) resolves to
getCommit(h) ==
    LET ps == repoCommits[h].parents IN
    [hash |-> h,
     parents |-> [i \in 1..Len(ps) |-> ParentAs(repoParentForms[i], ps[i])]]

NoLog == [ok |-> FALSE, commits |-> <<>>]

NoSelection == [type |-> "none", sinceDate |-> 0, days |-> 0,
                tag |-> Undefined, commitHash |-> Undefined]

\* a repository query in flight
Query(name, arg) == [query |-> name, arg |-> arg]

\* p without its first entry equal to q: the query q has settled
RECURSIVE Settled(_, _)
Settled(p, q) ==
    IF p = <<>> THEN <<>>
    ELSE IF Head(p) = q THEN Tail(p)
    ELSE <<Head(p)>> \o Settled(Tail(p), q)

\* the locals of a call that is not running
NoCall == [pc |-> "idle", selection |-> NoSelection, startHash |-> Undefined,
           maxCommits |-> 0, caller |-> "none", headCommits |-> <<>>, visited |-> {},
           queue |-> <<>>, hash |-> Undefined, targetHashes |-> {}, result |-> <<>>,
           thrown |-> "none"]

----------------------------------------------------------------------------
(* collectAncestorHashes *)

\* line 77, written without the normalization
InitialQueueRaw(start) == IF Truthy(start) THEN <<start>> ELSE <<>>

\* line 76-77: const queue = normalizedStart ? [normalizedStart] : []
InitialQueue(start) ==
    LET normalizedStart == normalizeHash(start) IN
    IF Truthy(normalizedStart) THEN <<normalizedStart>> ELSE <<>>

\* line 79, with <= for <
LoopConditionOffByOne(q, v, max) == Len(q) > 0 /\ Cardinality(v) <= max

\* line 79: while (queue.length > 0 && visited.size < maxCommits)
LoopCondition(q, v, max) == Len(q) > 0 /\ Cardinality(v) < max

\* lines 94-100, looking at the first parent only
ParentsToEnqueueFirstOnly(commit, v) ==
    LET parents == IF commit.parents = <<>> THEN <<>> ELSE <<Head(commit.parents)>>
        parentHash == [i \in 1..Len(parents) |->
                          normalizeHash(normalizeParentHash(parents[i]))]
    IN  SelectSeq(parentHash, LAMBDA p : Truthy(p) /\ p \notin v)

\* lines 94-100, without the visited test of line 97
ParentsToEnqueueUnchecked(commit, v) ==
    LET parents == commit.parents
        parentHash == [i \in 1..Len(parents) |->
                          normalizeHash(normalizeParentHash(parents[i]))]
    IN  SelectSeq(parentHash, Truthy)

\* lines 94-100, with the parent's identifier used as reported (line 95 left out)
ParentsToEnqueueNotTrimmed(commit, v) ==
    LET parents == commit.parents
        parentHash == [i \in 1..Len(parents) |-> normalizeParentHash(parents[i])]
    IN  SelectSeq(parentHash, LAMBDA p : Truthy(p) /\ p \notin v)

\* lines 94-100: the parents pushed on the queue
ParentsToEnqueue(commit, v) ==
    LET parents == commit.parents
        parentHash == [i \in 1..Len(parents) |->
                          normalizeHash(normalizeParentHash(parents[i]))]
    IN  SelectSeq(parentHash, LAMBDA p : Truthy(p) /\ p \notin v)

collectUnchanged == <<repoCommits, repoParentForms, repoLog, selection, startHash,
                      maxCommits, caller, headCommits, result, thrown, logCalls, other,
                      norms>>

\* lines 75-77
CollectEnter ==
    /\ pc = "collect_entry"
    /\ visited' = {}
    /\ queue' = InitialQueue(startHash)
    /\ pc' = "collect_loop"
    /\ UNCHANGED <<collectUnchanged, hash, targetHashes, getCommitCalls, getCommitErrors,
                   pending>>

\* lines 79-83, reading the entry without taking it off the queue
CollectSkipKeepsEntry ==
    /\ pc = "collect_loop"
    /\ LoopCondition(queue, visited, maxCommits)
    /\ ~Truthy(Head(queue)) \/ Head(queue) \in visited
    /\ queue' = queue
    /\ UNCHANGED <<collectUnchanged, pc, visited, hash, targetHashes,
                   getCommitCalls, getCommitErrors, pending>>

\* lines 79-83: an entry that is empty or already visited is dropped
CollectSkip ==
    /\ pc = "collect_loop"
    /\ LoopCondition(queue, visited, maxCommits)
    /\ ~Truthy(Head(queue)) \/ Head(queue) \in visited
    /\ queue' = Tail(queue)
    /\ UNCHANGED <<collectUnchanged, pc, visited, hash, targetHashes,
                   getCommitCalls, getCommitErrors, pending>>

\* lines 79-89, without the visited test of line 81
CollectFetchUnchecked ==
    /\ pc = "collect_loop"
    /\ LoopCondition(queue, visited, maxCommits)
    /\ Truthy(Head(queue))
    /\ hash' = Head(queue)
    /\ queue' = Tail(queue)
    /\ visited' = visited \cup {Head(queue)}
    /\ getCommitCalls' = Append(getCommitCalls, Head(queue))
    /\ pending' = Append(pending, Query("getCommit", Head(queue)))
    /\ pc' = "collect_await"
    /\ UNCHANGED <<collectUnchanged, targetHashes, getCommitErrors>>

\* lines 79-89: the entry is recorded as visited and its commit is requested
CollectFetch ==
    /\ pc = "collect_loop"
    /\ LoopCondition(queue, visited, maxCommits)
    /\ Truthy(Head(queue)) /\ Head(queue) \notin visited
    /\ hash' = Head(queue)
    /\ queue' = Tail(queue)
    /\ visited' = visited \cup {Head(queue)}
    /\ getCommitCalls' = Append(getCommitCalls, Head(queue))
    /\ pending' = Append(pending, Query("getCommit", Head(queue)))
    /\ pc' = "collect_await"
    /\ UNCHANGED <<collectUnchanged, targetHashes, getCommitErrors>>

\* lines 93-100 with the parents put in front of the queue (depth first)
GetCommitReturnsDepthFirst ==
    /\ pc = "collect_await"
    /\ getCommitOk(hash)
    /\ queue' = ParentsToEnqueue(getCommit(hash), visited) \o queue
    /\ pending' = Settled(pending, Query("getCommit", hash))
    /\ hash' = Undefined
    /\ pc' = "collect_loop"
    /\ UNCHANGED <<collectUnchanged, visited, targetHashes, getCommitCalls, getCommitErrors>>

\* lines 89, 94-100: repo.getCommit resolves
GetCommitReturns ==
    /\ pc = "collect_await"
    /\ getCommitOk(hash)
    /\ queue' = queue \o ParentsToEnqueue(getCommit(hash), visited)
    /\ pending' = Settled(pending, Query("getCommit", hash))
    /\ hash' = Undefined
    /\ pc' = "collect_loop"
    /\ UNCHANGED <<collectUnchanged, visited, targetHashes, getCommitCalls, getCommitErrors>>

\* lines 89-92 without the try/catch: the rejection ends the call
GetCommitThrowsRejects ==
    /\ pc = "collect_await"
    /\ ~getCommitOk(hash)
    /\ getCommitErrors' = getCommitErrors \cup {hash}
    /\ pending' = Settled(pending, Query("getCommit", hash))
    /\ thrown' = "getCommitError"
    /\ pc' = "failed"
    /\ UNCHANGED <<repoCommits, repoParentForms, repoLog, selection, startHash,
                   maxCommits, caller, headCommits, result, logCalls, norms,
                   visited, queue, hash, targetHashes, getCommitCalls, other>>

\* lines 84-92, with the identifier of a failed fetch taken out of the set
GetCommitThrowsForgets ==
    /\ pc = "collect_await"
    /\ ~getCommitOk(hash)
    /\ getCommitErrors' = getCommitErrors \cup {hash}
    /\ pending' = Settled(pending, Query("getCommit", hash))
    /\ visited' = visited \ {hash}
    /\ hash' = Undefined
    /\ pc' = "collect_loop"
    /\ UNCHANGED <<collectUnchanged, queue, targetHashes, getCommitCalls>>

\* lines 89-92: repo.getCommit rejects; the error is swallowed
GetCommitThrows ==
    /\ pc = "collect_await"
    /\ ~getCommitOk(hash)
    /\ getCommitErrors' = getCommitErrors \cup {hash}
    /\ pending' = Settled(pending, Query("getCommit", hash))
    /\ hash' = Undefined
    /\ pc' = "collect_loop"
    /\ UNCHANGED <<collectUnchanged, visited, queue, targetHashes, getCommitCalls>>

\* lines 79, 103: return visited
CollectReturn ==
    /\ pc = "collect_loop"
    /\ ~LoopCondition(queue, visited, maxCommits)
    /\ targetHashes' = visited
    /\ pc' = IF caller = "getCommitsForSelection" THEN "gcfs_filter" ELSE "done"
    /\ UNCHANGED <<collectUnchanged, visited, queue, hash, getCommitCalls, getCommitErrors,
                   pending>>

\* lines 75-103 run without interruption: the set the loop returns from queue q
\* and visited set v
RECURSIVE Bfs(_, _, _)
Bfs(q, v, max) ==
    IF ~LoopCondition(q, v, max) THEN v
    ELSE LET h == Head(q) IN
         IF ~Truthy(h) \/ h \in v THEN Bfs(Tail(q), v, max)
         ELSE IF getCommitOk(h)
              THEN Bfs(Tail(q) \o ParentsToEnqueue(getCommit(h), v \cup {h}),
                       v \cup {h}, max)
              ELSE Bfs(Tail(q), v \cup {h}, max)

\* collectAncestorHashes(repo, start, max) run alone
CollectAlone(start, max) == Bfs(InitialQueue(start), {}, max)

\* start identifiers of a direct call: empty, blank, a known commit (bare and
\* padded) and an unknown one
StartHashes == {<<>>, <<" ", "\t">>, <<"a">>, <<"\t", "a", " ">>, <<"z">>}

InitCollect ==
    /\ repoCommits \in CommitTables
    /\ repoParentForms \in ParentFormStyles
    /\ repoLog = NoLog
    /\ selection = NoSelection
    /\ startHash \in StartHashes
    /\ maxCommits \in 0..MaxCap
    /\ caller = "direct"
    /\ pc = "collect_entry"
    /\ headCommits = <<>>
    /\ visited = {}
    /\ queue = <<>>
    /\ hash = Undefined
    /\ targetHashes = {}
    /\ result = <<>>
    /\ thrown = "none"
    /\ getCommitCalls = <<>>
    /\ getCommitErrors = {}
    /\ logCalls = 0
    /\ pending = <<>>
    /\ other = NoCall
    /\ norms = <<>>

NextCollect ==
    \/ CollectEnter
    \/ CollectSkip
    \/ CollectFetch
    \/ GetCommitReturns
    \/ GetCommitThrows
    \/ CollectReturn

SpecCollect == InitCollect /\ [][NextCollect]_vars

\* the event loop runs every continuation that is ready, and every getCommit
\* promise settles
FairSpecCollect == SpecCollect /\ WF_vars(NextCollect)

\* graphs over four commits, deep enough for three breadth-first levels: the
\* fourth commit is a root, every commit is fetchable
LevelIds == Ids \cup {<<"d">>}

LevelParentLists ==
    {<<>>} \cup {<<y>> : y \in LevelIds}
           \cup {l \in {<<y, z>> : y \in LevelIds, z \in LevelIds} : l[1] # l[2]}

LevelTables ==
    {t \in [LevelIds -> {[ok |-> TRUE, parents |-> l] : l \in LevelParentLists}] :
        /\ t[<<"d">>].parents = <<>>
        /\ \A x \in LevelIds : x \notin Range(t[x].parents)}

\* a direct call on a four-commit graph, from a known or an unknown start
InitLevels ==
    /\ repoCommits \in LevelTables
    /\ repoParentForms = <<"str", "str">>
    /\ repoLog = NoLog
    /\ selection = NoSelection
    /\ startHash \in {<<"a">>, <<"z">>}
    /\ maxCommits \in 0..MaxCap
    /\ caller = "direct"
    /\ pc = "collect_entry"
    /\ headCommits = <<>>
    /\ visited = {}
    /\ queue = <<>>
    /\ hash = Undefined
    /\ targetHashes = {}
    /\ result = <<>>
    /\ thrown = "none"
    /\ getCommitCalls = <<>>
    /\ getCommitErrors = {}
    /\ logCalls = 0
    /\ pending = <<>>
    /\ other = NoCall
    /\ norms = <<>>

SpecLevels == InitLevels /\ [][NextCollect]_vars

----------------------------------------------------------------------------
(* getCommitsForSelection *)

SeqsUpTo(S, n) == UNION {[1..k -> S] : k \in 0..n}

\* line 110, with > for >=
KeepForDaysStrict(commit, sinceDate) == getCommitDate(commit) > sinceDate

\* line 110: getCommitDate(commit) >= selection.sinceDate
KeepForDays(commit, sinceDate) == getCommitDate(commit) >= sinceDate

\* lines 109-111, with the kept commits re-sorted oldest first
DaysResultReversed(allCommits, sinceDate) ==
    LET kept == SelectSeq(allCommits, LAMBDA c : KeepForDays(c, sinceDate))
    IN  [i \in 1..Len(kept) |-> normalizeCommit(kept[Len(kept) + 1 - i])]

\* lines 109-111, comparing with the day count instead of sinceDate
DaysResultByDayCount(allCommits, sinceDate) ==
    LET kept == SelectSeq(allCommits, LAMBDA c : KeepForDays(c, selection.days))
    IN  [i \in 1..Len(kept) |-> normalizeCommit(kept[i])]

\* lines 109-111
DaysResult(allCommits, sinceDate) ==
    LET kept == SelectSeq(allCommits, LAMBDA c : KeepForDays(c, sinceDate))
    IN  [i \in 1..Len(kept) |-> normalizeCommit(kept[i])]

\* lines 120-122
HeadHashes(commits) ==
    SelectSeq([i \in 1..Len(commits) |-> normalizeHash(commits[i].hash)], Truthy)

\* line 123-126 left out: the log is filtered whether or not it meets the target
HasCommonAncestorSkipped(commits, targets) == TRUE

\* line 123
HasCommonAncestor(commits, targets) ==
    \E i \in 1..Len(HeadHashes(commits)) : HeadHashes(commits)[i] \in targets

\* lines 128-131, with the membership test inverted
KeepForTargetInverted(commit, targets) ==
    LET h == normalizeHash(commit.hash) IN
    IF Truthy(h) THEN h \in targets ELSE FALSE

\* lines 128-131, keeping the commits without a hash
KeepForTargetKeepsBlank(commit, targets) ==
    LET h == normalizeHash(commit.hash) IN
    IF Truthy(h) THEN h \notin targets ELSE TRUE

\* lines 128-131
KeepForTarget(commit, targets) ==
    LET h == normalizeHash(commit.hash) IN
    IF Truthy(h) THEN h \notin targets ELSE FALSE

\* lines 120-133
TargetResult(commits, targets) ==
    IF ~HasCommonAncestor(commits, targets) THEN <<>>
    ELSE LET filteredCommits == SelectSeq(commits, LAMBDA c : KeepForTarget(c, targets))
         IN  [i \in 1..Len(filteredCommits) |-> normalizeCommit(filteredCommits[i])]

gcfsUnchanged == <<repoCommits, repoParentForms, repoLog, selection, visited, queue,
                   hash, getCommitCalls, getCommitErrors, other, norms>>

\* lines 114-119 with the ancestor search started while the log is in flight
CallLogConcurrent ==
    /\ pc = "gcfs_entry"
    /\ logCalls' = logCalls + 1
    /\ pending' = Append(pending, Query("log", Undefined))
    /\ IF selection.type = "days"
       THEN pc' = "days_awaitLog" /\ UNCHANGED <<startHash, maxCommits, caller>>
       ELSE /\ pc' = "collect_entry"
            /\ startHash' = selection.commitHash
            /\ maxCommits' = MAX_LOG_ENTRIES
            /\ caller' = "getCommitsForSelection"
    /\ UNCHANGED <<gcfsUnchanged, headCommits, targetHashes, result, thrown>>

\* lines 107-108 and 114: repo.log({ maxEntries: MAX_LOG_ENTRIES }) is issued
CallLog ==
    /\ pc = "gcfs_entry"
    /\ logCalls' = logCalls + 1
    /\ pending' = Append(pending, Query("log", Undefined))
    /\ pc' = IF selection.type = "days" THEN "days_awaitLog" ELSE "head_awaitLog"
    /\ UNCHANGED <<gcfsUnchanged, startHash, maxCommits, caller, headCommits,
                   targetHashes, result, thrown>>

\* lines 108, 114 wrapped in a catch that answers with an empty list
LogThrowsSwallowed ==
    /\ pc \in {"days_awaitLog", "head_awaitLog"}
    /\ ~repoLog.ok
    /\ pending' = Settled(pending, Query("log", Undefined))
    /\ result' = <<>>
    /\ pc' = "done"
    /\ UNCHANGED <<gcfsUnchanged, startHash, maxCommits, caller, headCommits,
                   targetHashes, thrown, logCalls>>

\* lines 108, 114: repo.log rejects; nothing catches it
LogThrows ==
    /\ pc \in {"days_awaitLog", "head_awaitLog"}
    /\ ~repoLog.ok
    /\ pending' = Settled(pending, Query("log", Undefined))
    /\ thrown' = "logError"
    /\ pc' = "failed"
    /\ UNCHANGED <<gcfsUnchanged, startHash, maxCommits, caller, headCommits,
                   targetHashes, result, logCalls>>

\* lines 108-111
DaysLogReturns ==
    /\ pc = "days_awaitLog"
    /\ repoLog.ok
    /\ pending' = Settled(pending, Query("log", Undefined))
    /\ result' = DaysResult(repoLog.commits, selection.sinceDate)
    /\ pc' = "done"
    /\ UNCHANGED <<gcfsUnchanged, startHash, maxCommits, caller, headCommits,
                   targetHashes, thrown, logCalls>>

\* lines 114-119 without the early return of lines 115-117
HeadLogEmptyStillCollects ==
    /\ pc = "head_awaitLog"
    /\ repoLog.ok
    /\ Len(repoLog.commits) = 0
    /\ pending' = Settled(pending, Query("log", Undefined))
    /\ headCommits' = repoLog.commits
    /\ startHash' = selection.commitHash
    /\ maxCommits' = MAX_LOG_ENTRIES
    /\ caller' = "getCommitsForSelection"
    /\ pc' = "collect_entry"
    /\ UNCHANGED <<gcfsUnchanged, targetHashes, result, thrown, logCalls>>

\* lines 114-117: an empty head log
HeadLogEmpty ==
    /\ pc = "head_awaitLog"
    /\ repoLog.ok
    /\ Len(repoLog.commits) = 0
    /\ pending' = Settled(pending, Query("log", Undefined))
    /\ headCommits' = repoLog.commits
    /\ result' = <<>>
    /\ pc' = "done"
    /\ UNCHANGED <<gcfsUnchanged, startHash, maxCommits, caller, targetHashes,
                   thrown, logCalls>>

\* lines 114-119: collectAncestorHashes(repo, selection.commitHash, MAX_LOG_ENTRIES)
HeadLogReturns ==
    /\ pc = "head_awaitLog"
    /\ repoLog.ok
    /\ Len(repoLog.commits) # 0
    /\ pending' = Settled(pending, Query("log", Undefined))
    /\ headCommits' = repoLog.commits
    /\ startHash' = selection.commitHash
    /\ maxCommits' = MAX_LOG_ENTRIES
    /\ caller' = "getCommitsForSelection"
    /\ pc' = "collect_entry"
    /\ UNCHANGED <<gcfsUnchanged, targetHashes, result, thrown, logCalls>>

\* lines 119-133
FilterByTarget ==
    /\ pc = "gcfs_filter"
    /\ result' = TargetResult(headCommits, targetHashes)
    /\ pc' = "done"
    /\ UNCHANGED <<gcfsUnchanged, startHash, maxCommits, caller, headCommits,
                   targetHashes, thrown, logCalls, pending>>

\* the dates a log commit carries: an author date, only a commit date, or none
DateOptions ==
    {[authorDate |-> {t}, commitDate |-> {0}] : t \in 0..MaxDate}
    \cup {[authorDate |-> {}, commitDate |-> {1}], [authorDate |-> {}, commitDate |-> {}]}

LogCommit(h, d) == [hash |-> h, authorDate |-> d.authorDate, commitDate |-> d.commitDate]

\* hashes of log commits: bare, padded and blank
HeadLogHashes == {<<"a">>, <<"b">>, <<" ", "c", "\t">>, <<" ">>}

DaysLogHashes == {<<"a">>, <<" ", "c", "\t">>, <<" ">>}

HeadLogCommits ==
    {LogCommit(h, [authorDate |-> {1}, commitDate |-> {0}]) : h \in HeadLogHashes}

DaysLogCommits == {LogCommit(h, d) : h \in DaysLogHashes, d \in DateOptions}

\* repo.log({ maxEntries }) rejects or resolves to at most maxEntries commits
LogsOf(commits) ==
    {NoLog} \cup {[ok |-> TRUE, commits |-> l] : l \in SeqsUpTo(commits, MAX_LOG_ENTRIES)}

TargetSelections ==
    { [NoSelection EXCEPT !.type = "tag", !.tag = <<"v">>, !.commitHash = <<"a">>],
      [NoSelection EXCEPT !.type = "commit", !.commitHash = <<"\t", "a", " ">>],
      [NoSelection EXCEPT !.type = "tag", !.tag = <<"v">>, !.commitHash = <<" ">>] }

DaysSelections ==
    {[NoSelection EXCEPT !.type = "days", !.days = n, !.sinceDate = d] :
        n \in {1, 7}, d \in 0..MaxDate}

SelectionFormStyles == {<<"str", "str">>, <<"objHash", "strPad">>}

\* the days variant never looks at the graph: two graphs are enough
DaysCommitTables ==
    {[x \in Ids |-> [ok |-> FALSE, parents |-> <<>>]],
     [x \in Ids |-> [ok |-> TRUE, parents |-> <<>>]]}

InitSelection ==
    /\ \/ /\ selection \in TargetSelections
          /\ repoCommits \in CommitTables
          /\ repoParentForms \in SelectionFormStyles
          /\ repoLog \in LogsOf(HeadLogCommits)
       \/ /\ selection \in DaysSelections
          /\ repoCommits \in DaysCommitTables
          /\ repoParentForms = <<"str", "str">>
          /\ repoLog \in LogsOf(DaysLogCommits)
    /\ startHash = Undefined
    /\ maxCommits = 0
    /\ caller = "none"
    /\ pc = "gcfs_entry"
    /\ headCommits = <<>>
    /\ visited = {}
    /\ queue = <<>>
    /\ hash = Undefined
    /\ targetHashes = {}
    /\ result = <<>>
    /\ thrown = "none"
    /\ getCommitCalls = <<>>
    /\ getCommitErrors = {}
    /\ logCalls = 0
    /\ pending = <<>>
    /\ other = NoCall
    /\ norms = <<>>

\* one call of either exported function
Init == InitSelection \/ InitCollect

Next ==
    \/ CallLog
    \/ LogThrows
    \/ DaysLogReturns
    \/ HeadLogEmpty
    \/ HeadLogReturns
    \/ CollectEnter
    \/ CollectSkip
    \/ CollectFetch
    \/ GetCommitReturns
    \/ GetCommitThrows
    \/ CollectReturn
    \/ FilterByTarget

Spec == Init /\ [][Next]_vars

----------------------------------------------------------------------------
(* two calls on one repository, interleaved at their awaits; the second call's
   locals are the fields of other *)

otherUnchanged == <<repoCommits, repoParentForms, repoLog, selection, startHash,
                    maxCommits, caller, pc, headCommits, visited, queue, hash,
                    targetHashes, result, thrown, getCommitCalls, getCommitErrors,
                    logCalls, pending, norms>>

\* lines 107-108 and 114
OtherCallLog ==
    /\ other.pc = "gcfs_entry"
    /\ other' = [other EXCEPT !.pc = IF other.selection.type = "days"
                                     THEN "days_awaitLog" ELSE "head_awaitLog"]
    /\ UNCHANGED otherUnchanged

\* lines 108, 114: repo.log rejects
OtherLogThrows ==
    /\ other.pc \in {"days_awaitLog", "head_awaitLog"}
    /\ ~repoLog.ok
    /\ other' = [other EXCEPT !.thrown = "logError", !.pc = "failed"]
    /\ UNCHANGED otherUnchanged

\* lines 108-111
OtherDaysLogReturns ==
    /\ other.pc = "days_awaitLog"
    /\ repoLog.ok
    /\ other' = [other EXCEPT !.result = DaysResult(repoLog.commits,
                                                    other.selection.sinceDate),
                              !.pc = "done"]
    /\ UNCHANGED otherUnchanged

\* lines 114-117
OtherHeadLogEmpty ==
    /\ other.pc = "head_awaitLog"
    /\ repoLog.ok
    /\ Len(repoLog.commits) = 0
    /\ other' = [other EXCEPT !.headCommits = repoLog.commits, !.result = <<>>,
                              !.pc = "done"]
    /\ UNCHANGED otherUnchanged

\* lines 114-119
OtherHeadLogReturns ==
    /\ other.pc = "head_awaitLog"
    /\ repoLog.ok
    /\ Len(repoLog.commits) # 0
    /\ other' = [other EXCEPT !.headCommits = repoLog.commits,
                              !.startHash = other.selection.commitHash,
                              !.maxCommits = MAX_LOG_ENTRIES,
                              !.caller = "getCommitsForSelection",
                              !.pc = "collect_entry"]
    /\ UNCHANGED otherUnchanged

\* lines 75-77 with a visited set kept outside the function and shared by the calls
OtherCollectEnterSharedVisited ==
    /\ other.pc = "collect_entry"
    /\ other' = [other EXCEPT !.visited = visited,
                              !.queue = InitialQueue(other.startHash),
                              !.pc = "collect_loop"]
    /\ UNCHANGED otherUnchanged

\* lines 75-77
OtherCollectEnter ==
    /\ other.pc = "collect_entry"
    /\ other' = [other EXCEPT !.visited = {},
                              !.queue = InitialQueue(other.startHash),
                              !.pc = "collect_loop"]
    /\ UNCHANGED otherUnchanged

\* lines 79-83
OtherCollectSkip ==
    /\ other.pc = "collect_loop"
    /\ LoopCondition(other.queue, other.visited, other.maxCommits)
    /\ ~Truthy(Head(other.queue)) \/ Head(other.queue) \in other.visited
    /\ other' = [other EXCEPT !.queue = Tail(other.queue)]
    /\ UNCHANGED otherUnchanged

\* lines 79-89
OtherCollectFetch ==
    /\ other.pc = "collect_loop"
    /\ LoopCondition(other.queue, other.visited, other.maxCommits)
    /\ Truthy(Head(other.queue)) /\ Head(other.queue) \notin other.visited
    /\ other' = [other EXCEPT !.hash = Head(other.queue),
                              !.queue = Tail(other.queue),
                              !.visited = other.visited \cup {Head(other.queue)},
                              !.pc = "collect_await"]
    /\ UNCHANGED otherUnchanged

\* lines 89, 93-100
OtherGetCommitReturns ==
    /\ other.pc = "collect_await"
    /\ getCommitOk(other.hash)
    /\ other' = [other EXCEPT !.queue = other.queue \o
                                  ParentsToEnqueue(getCommit(other.hash), other.visited),
                              !.hash = Undefined,
                              !.pc = "collect_loop"]
    /\ UNCHANGED otherUnchanged

\* lines 89-92
OtherGetCommitThrows ==
    /\ other.pc = "collect_await"
    /\ ~getCommitOk(other.hash)
    /\ other' = [other EXCEPT !.hash = Undefined, !.pc = "collect_loop"]
    /\ UNCHANGED otherUnchanged

\* lines 79, 103
OtherCollectReturn ==
    /\ other.pc = "collect_loop"
    /\ ~LoopCondition(other.queue, other.visited, other.maxCommits)
    /\ other' = [other EXCEPT !.targetHashes = other.visited,
                              !.pc = IF other.caller = "getCommitsForSelection"
                                     THEN "gcfs_filter" ELSE "done"]
    /\ UNCHANGED otherUnchanged

\* lines 119-133
OtherFilterByTarget ==
    /\ other.pc = "gcfs_filter"
    /\ other' = [other EXCEPT !.result = TargetResult(other.headCommits,
                                                      other.targetHashes),
                              !.pc = "done"]
    /\ UNCHANGED otherUnchanged

\* the logs of the repository the two calls share: rejected, empty, two commits
TwoLogs ==
    { NoLog,
      [ok |-> TRUE, commits |-> <<>>],
      [ok |-> TRUE,
       commits |-> << LogCommit(<<"a">>, [authorDate |-> {2}, commitDate |-> {0}]),
                      LogCommit(<<" ", "b", "\t">>,
                                [authorDate |-> {0}, commitDate |-> {0}]) >>] }

\* the first call: collectAncestorHashes from a, or getCommitsForSelection
TwoFirstCalls ==
    {[NoCall EXCEPT !.pc = "collect_entry", !.caller = "direct",
                    !.startHash = <<"a">>, !.maxCommits = m] :
        m \in {MAX_LOG_ENTRIES, MaxCap}}
    \cup
    {[NoCall EXCEPT !.pc = "gcfs_entry", !.selection = sel] :
        sel \in {[NoSelection EXCEPT !.type = "commit", !.commitHash = <<"\t", "a", " ">>],
                 [NoSelection EXCEPT !.type = "days", !.days = 7, !.sinceDate = 1]}}

\* the second call: collectAncestorHashes from b, or getCommitsForSelection
TwoSecondCalls ==
    {[NoCall EXCEPT !.pc = "collect_entry", !.caller = "direct",
                    !.startHash = <<"b">>, !.maxCommits = m] :
        m \in {MAX_LOG_ENTRIES, MaxCap}}
    \cup
    {[NoCall EXCEPT !.pc = "gcfs_entry", !.selection = sel] :
        sel \in {[NoSelection EXCEPT !.type = "tag", !.tag = <<"v">>, !.commitHash = <<"b">>],
                 [NoSelection EXCEPT !.type = "days", !.days = 1, !.sinceDate = 2]}}

InitTwo ==
    /\ repoCommits \in CommitTables
    /\ repoParentForms = <<"str", "str">>
    /\ repoLog \in TwoLogs
    /\ \E first \in TwoFirstCalls :
          /\ selection = first.selection
          /\ startHash = first.startHash
          /\ maxCommits = first.maxCommits
          /\ caller = first.caller
          /\ pc = first.pc
    /\ headCommits = <<>>
    /\ visited = {}
    /\ queue = <<>>
    /\ hash = Undefined
    /\ targetHashes = {}
    /\ result = <<>>
    /\ thrown = "none"
    /\ getCommitCalls = <<>>
    /\ getCommitErrors = {}
    /\ logCalls = 0
    /\ pending = <<>>
    /\ other \in TwoSecondCalls
    /\ norms = <<>>

NextOther ==
    \/ OtherCallLog
    \/ OtherLogThrows
    \/ OtherDaysLogReturns
    \/ OtherHeadLogEmpty
    \/ OtherHeadLogReturns
    \/ OtherCollectEnter
    \/ OtherCollectSkip
    \/ OtherCollectFetch
    \/ OtherGetCommitReturns
    \/ OtherGetCommitThrows
    \/ OtherCollectReturn
    \/ OtherFilterByTarget

NextTwo == Next \/ NextOther

SpecTwo == InitTwo /\ [][NextTwo]_vars

----------------------------------------------------------------------------
(* normalizeHash on its own *)

Alphabet == {"a", " ", "\t"}

Strings == SeqsUpTo(Alphabet, MaxLen)

\* normalizeHash applied to the argument, then to its own result
NormalizeStep ==
    /\ pc = "normalize"
    /\ Len(norms) < 2
    /\ norms' = Append(norms, normalizeHash(IF Len(norms) = 0 THEN startHash
                                            ELSE norms[Len(norms)]))
    /\ UNCHANGED <<repoCommits, repoParentForms, repoLog, selection, startHash,
                   maxCommits, caller, pc, headCommits, visited, queue, hash,
                   targetHashes, result, thrown, getCommitCalls, getCommitErrors,
                   logCalls, pending, other>>

InitNormalize ==
    /\ startHash \in Strings
    /\ pc = "normalize"
    /\ repoCommits = [x \in Ids |-> [ok |-> FALSE, parents |-> <<>>]]
    /\ repoParentForms = <<"str", "str">>
    /\ repoLog = NoLog
    /\ selection = NoSelection
    /\ maxCommits = 0
    /\ caller = "none"
    /\ headCommits = <<>>
    /\ visited = {}
    /\ queue = <<>>
    /\ hash = Undefined
    /\ targetHashes = {}
    /\ result = <<>>
    /\ thrown = "none"
    /\ getCommitCalls = <<>>
    /\ getCommitErrors = {}
    /\ logCalls = 0
    /\ pending = <<>>
    /\ other = NoCall
    /\ norms = <<>>

NextNormalize == NormalizeStep

SpecNormalize == InitNormalize /\ [][NextNormalize]_vars

----------------------------------------------------------------------------
(* What the claims speak of, stated without the code's own helpers *)

IsBlank(s) == \A i \in 1..Len(s) : s[i] \in Whitespace

\* s without its leading and trailing whitespace (s is not blank)
Stripped(s) ==
    LET solid == {i \in 1..Len(s) : s[i] \notin Whitespace}
        first == CHOOSE i \in solid : \A k \in solid : i <= k
        last  == CHOOSE i \in solid : \A k \in solid : k <= i
    IN  SubSeq(s, first, last)

\* the identifier a string names, Undefined when it names none
IdOf(s) == IF s = Undefined \/ IsBlank(s) THEN Undefined ELSE Stripped(s)

\* y is a parent of x in the graph the repository reports
Edge(x, y) ==
    /\ x \in DOMAIN repoCommits
    /\ repoCommits[x].ok
    /\ \E i \in 1..Len(repoCommits[x].parents) :
          repoCommits[x].parents[i] = y /\ repoParentForms[i] \in IdForms

RECURSIVE Reachable(_)
Reachable(S) ==
    LET N == S \cup {y \in DOMAIN repoCommits : \E x \in S : Edge(x, y)}
    IN  IF N = S THEN S ELSE Reachable(N)

\* x and its ancestors
Ancestry(x) == IF x = Undefined THEN {} ELSE Reachable({x})

\* r is the log commit l, possibly as a copy with a trimmed hash
SameCommit(r, l) ==
    \/ r = l
    \/ l.hash # Undefined /\ ~IsBlank(l.hash) /\ r = [l EXCEPT !.hash = Stripped(l.hash)]

RECURSIVE IsSubsequence(_, _)
IsSubsequence(r, l) ==
    IF r = <<>> THEN TRUE
    ELSE IF l = <<>> THEN FALSE
    ELSE IF SameCommit(Head(r), Head(l)) THEN IsSubsequence(Tail(r), Tail(l))
    ELSE IsSubsequence(r, Tail(l))

\* the j-th smallest element of a set of indices
Nth(S, j) == CHOOSE i \in S : Cardinality({k \in S : k < i}) = j - 1

\* r is the log l restricted to the positions in keep, in the order of l
IsRestriction(r, l, keep) ==
    /\ Len(r) = Cardinality(keep)
    /\ \A j \in 1..Len(r) : SameCommit(r[j], l[Nth(keep, j)])

IsTargetSelection == selection.type \in {"tag", "commit"}

Target == IdOf(selection.commitHash)

\* identifiers of the commits of the log
LogIds == {IdOf(repoLog.commits[i].hash) : i \in 1..Len(repoLog.commits)}

\* positions of the log whose commit is neither x nor an ancestor of x
NotInAncestry(x) ==
    {i \in 1..Len(repoLog.commits) : IdOf(repoLog.commits[i].hash) \notin Ancestry(x)}

\* the log holds the whole history of one head, all of it known commits
HeadLogIsWholeHistory ==
    /\ repoLog.ok
    /\ LogIds \subseteq Ids
    /\ \A x \in LogIds : repoCommits[x].ok
    /\ \E h \in LogIds : LogIds = Reachable({h})

\* the target's ancestry fits the cap and every commit of it can be fetched
TargetAncestryCollected ==
    /\ Target \in Ids
    /\ \A x \in Ancestry(Target) : repoCommits[x].ok
    /\ Cardinality(Ancestry(Target)) <= MAX_LOG_ENTRIES

----------------------------------------------------------------------------
(* Claims *)

\* C1: tag or commit selection, the head log is the whole history of the head,
\* the target's whole ancestry is collected and some head commit is in it: the
\* result is exactly the head-log commits outside the target's ancestry, in the
\* order of the log.
C1_DivergenceExact ==
    ( /\ pc = "done"
      /\ IsTargetSelection
      /\ HeadLogIsWholeHistory
      /\ TargetAncestryCollected
      /\ LogIds \cap Ancestry(Target) # {} )
    => IsRestriction(result, repoLog.commits, NotInAncestry(Target))

C1_Witness ==
    /\ pc = "done"
    /\ IsTargetSelection
    /\ HeadLogIsWholeHistory
    /\ TargetAncestryCollected
    /\ LogIds \cap Ancestry(Target) # {}
    /\ Len(repoLog.commits) = 2
    /\ Len(result) = 1
    /\ Cardinality(Ancestry(Target)) = 2

\* the tip of a linear chain: every commit of its ancestry has at most one
\* parent and can be fetched, and the chain ends in a root
IsLinearChain(tip) ==
    /\ tip \in Ids
    /\ \A x \in Ancestry(tip) :
          /\ repoCommits[x].ok
          /\ Len(repoCommits[x].parents) <= 1
          /\ Len(repoCommits[x].parents) = 1 => repoParentForms[1] \in IdForms
    /\ \E x \in Ancestry(tip) : Len(repoCommits[x].parents) = 0

\* C2: the visited set never holds more than maxCommits identifiers, nor does
\* the returned set; on a linear chain longer than maxCommits, started at its
\* tip, exactly maxCommits identifiers are returned.
C2_BoundedTraversal ==
    /\ Cardinality(visited) <= maxCommits
    /\ pc = "done" => Cardinality(targetHashes) <= maxCommits
    /\ ( /\ pc = "done"
         /\ IsLinearChain(IdOf(startHash))
         /\ Cardinality(Ancestry(IdOf(startHash))) > maxCommits )
       => Cardinality(targetHashes) = maxCommits

C2_Witness ==
    /\ pc = "done"
    /\ IsLinearChain(IdOf(startHash))
    /\ Cardinality(Ancestry(IdOf(startHash))) = 3
    /\ maxCommits = 2
    /\ Cardinality(targetHashes) = 2

\* C3: a getCommit failure never fails the call; every failing identifier that was
\* fetched is in the returned set and, when the cap is not reached, so is every
\* identifier reachable from the start through commits that could be fetched.
C3_MissingNodeResilience ==
    /\ thrown = "none"
    /\ pc # "failed"
    /\ pc = "done" =>
          /\ {h \in Range(getCommitCalls) : ~getCommitOk(h)} \subseteq targetHashes
          /\ getCommitErrors \subseteq targetHashes
          /\ Cardinality(targetHashes) < maxCommits
                => Ancestry(IdOf(startHash)) \subseteq targetHashes

C3_Witness ==
    /\ pc = "done"
    /\ Cardinality(targetHashes) < maxCommits
    /\ \E f \in getCommitErrors : f # IdOf(startHash)
    /\ \E y \in targetHashes \ getCommitErrors : y # IdOf(startHash)

\* a history git can produce: every commit can be fetched, no commit is its own
\* ancestor, and the log lists distinct commits, each one after the head being
\* a parent of a commit listed before it
IsGitHistory ==
    /\ repoLog.ok
    /\ \A x \in Ids : repoCommits[x].ok /\ \A y \in Ids : Edge(x, y) => x \notin Reachable({y})
    /\ \A i \in 1..Len(repoLog.commits) :
          /\ IdOf(repoLog.commits[i].hash) \in Ids
          /\ \A k \in 1..(i - 1) : IdOf(repoLog.commits[k].hash) # IdOf(repoLog.commits[i].hash)
          /\ i > 1 => \E k \in 1..(i - 1) :
                Edge(IdOf(repoLog.commits[k].hash), IdOf(repoLog.commits[i].hash))

\* C4 as claimed: no commit returned for a tag or commit selection is the target
\* or an ancestor of the target, also when the history is larger than the cap
\* (stated for the histories git can produce).
C4_NoAncestorReturned ==
    (pc = "done" /\ IsTargetSelection /\ IsGitHistory)
    => \A j \in 1..Len(result) : IdOf(result[j].hash) \notin Ancestry(Target)

\* the head log and the target's ancestry share no commit
NoSharedHistory ==
    /\ IsTargetSelection
    /\ repoLog.ok
    /\ LogIds \cap Ancestry(Target) = {}

\* C5: tag or commit selection over two disjoint histories: the call does not
\* fail and returns the empty list.
C5_DisjointHistoriesEmpty ==
    NoSharedHistory =>
        /\ thrown = "none"
        /\ pc # "failed"
        /\ pc = "done" => result = <<>>

C5_Witness ==
    /\ pc = "done"
    /\ NoSharedHistory
    /\ Target \in Ids
    /\ LogIds \cap Ids # {}
    /\ Len(getCommitCalls) > 0

\* positions of the log whose commit's timestamp is on or after d
OnOrAfter(d) ==
    {i \in 1..Len(repoLog.commits) : getCommitDate(repoLog.commits[i]) >= d}

\* C6: days selection: exactly the log commits whose timestamp is on or after
\* sinceDate are returned; equality is included.
C6_DaysInclusive ==
    (pc = "done" /\ selection.type = "days")
    => IsRestriction(result, repoLog.commits, OnOrAfter(selection.sinceDate))

C6_Witness ==
    /\ pc = "done"
    /\ selection.type = "days"
    /\ selection.sinceDate > 0
    /\ Len(result) = 1
    /\ \E i \in 1..Len(repoLog.commits) :
          getCommitDate(repoLog.commits[i]) = selection.sinceDate
    /\ \E i \in 1..Len(repoLog.commits) :
          getCommitDate(repoLog.commits[i]) < selection.sinceDate

C8_BlankStart ==
    (caller = "direct" /\ IsBlank(startHash)) =>
        /\ thrown = "none"
        /\ pc # "failed"
        /\ getCommitCalls = <<>>
        /\ pc = "done" => targetHashes = {}

C8_Witness ==
    /\ pc = "done"
    /\ caller = "direct"
    /\ IsBlank(startHash)
    /\ startHash # <<>>

\* C9: a failing repo.log fails the call with that error, for every variant,
\* without a result and without a getCommit call; a getCommit failure is never
\* the error of the call.
C9_ErrorPropagation ==
    /\ thrown \in {"none", "logError"}
    /\ pc = "failed" <=> thrown = "logError"
    /\ pc = "failed" => ~repoLog.ok /\ getCommitCalls = <<>> /\ result = <<>>
    /\ (selection.type # "none" /\ ~repoLog.ok)
          => pc \in {"gcfs_entry", "days_awaitLog", "head_awaitLog", "failed"}
    /\ getCommitErrors # {} => thrown = "none"

C9_Witness ==
    /\ pc = "failed"
    /\ selection.type = "commit"
    /\ thrown = "logError"

\* C10: normalizeHash gives absent for an empty or blank string and the string
\* without its surrounding whitespace otherwise; applied to its own result it
\* changes nothing.
C10_NormalizeIdempotent ==
    /\ Len(norms) >= 1 =>
          norms[1] = (IF IsBlank(startHash) THEN Undefined ELSE Stripped(startHash))
    /\ Len(norms) = 2 => norms[2] = norms[1]

C10_Witness ==
    /\ Len(norms) = 2
    /\ norms[1] # Undefined
    /\ norms[1] # startHash
    /\ \E i \in 1..Len(norms[1]) : norms[1][i] \in Whitespace

\* C11: no getCommit call fails and the commits reachable from the start fit the
\* cap: the returned set is exactly the start and everything reachable from it.
C11_ExactAncestry ==
    ( /\ pc = "done"
      /\ caller = "direct"
      /\ getCommitErrors = {}
      /\ Cardinality(Ancestry(IdOf(startHash))) <= maxCommits )
    => targetHashes = Ancestry(IdOf(startHash))

C11_Witness ==
    /\ pc = "done"
    /\ caller = "direct"
    /\ getCommitErrors = {}
    /\ maxCommits = 3
    /\ Cardinality(targetHashes) = 3
    /\ \E y \in targetHashes : y # IdOf(startHash) /\ ~Edge(IdOf(startHash), y)

\* C12: every identifier is fetched at most once, a fetch goes with exactly one
\* addition to the visited set, and at most maxCommits fetches are issued.
C12_FetchedOnce ==
    /\ \A i \in 1..Len(getCommitCalls) : \A j \in 1..Len(getCommitCalls) :
          i # j => getCommitCalls[i] # getCommitCalls[j]
    /\ Range(getCommitCalls) = visited
    /\ Len(getCommitCalls) <= maxCommits

\* a commit that cannot be fetched, listed by two fetched commits
C12_Witness ==
    /\ pc = "done"
    /\ maxCommits = 4
    /\ Cardinality(visited) = 3
    /\ \E y \in getCommitErrors : \E x1 \in visited : \E x2 \in visited :
          x1 # x2 /\ Edge(x1, y) /\ Edge(x2, y)

\* number of entries of the queue equal to q
Copies(q) == Cardinality({i \in 1..Len(queue) : queue[i] = q})

\* C13 as claimed: the queue never holds two copies of one identifier and is
\* never longer than the number of distinct commits.
C13_QueueHoldsNoCopies ==
    /\ \A q \in Range(queue) : Copies(q) = 1
    /\ Len(queue) <= Cardinality(DOMAIN repoCommits)

\* C13 as amended: an identifier is never put in the queue while it is in the
\* visited set, and the queue holds at most one copy of it per visited commit
\* that lists it as a parent (and one for the start).
C13_EnqueueOnlyUnvisited ==
    /\ [](\A q \in Range(queue) :
            Copies(q) <= (IF q = IdOf(startHash) THEN 1 ELSE 0)
                         + Cardinality({x \in visited : Edge(x, q)}))
    /\ [][pc = "collect_await" =>
            \A i \in (Len(queue) + 1)..Len(queue') : queue'[i] \notin visited]_vars

C13_Witness ==
    /\ pc = "collect_loop"
    /\ Len(queue) = 2
    /\ queue[1] = queue[2]

\* C14: every call of collectAncestorHashes returns, whatever the graph (cycles,
\* unknown commits); it returns from the loop test only, and exactly when the
\* queue is empty or the visited set has reached maxCommits.
C14_Terminates ==
    /\ <>(pc = "done")
    /\ [][pc' = "done" =>
            /\ pc = "collect_loop"
            /\ Len(queue) = 0 \/ Cardinality(visited) >= maxCommits]_vars
    /\ [][( /\ pc = "collect_loop"
            /\ Len(queue) = 0 \/ Cardinality(visited) >= maxCommits ) =>
            pc' = "done"]_vars

\* a finished traversal of a graph with a cycle and an unknown commit
C14_Witness ==
    /\ pc = "done"
    /\ Len(queue) = 0
    /\ Cardinality(visited) < maxCommits
    /\ getCommitErrors # {}
    /\ \E x \in visited : \E y \in visited : x # y /\ Edge(x, y) /\ Edge(y, x)

\* the commits within k parent edges of x
RECURSIVE Ball(_, _)
Ball(x, k) ==
    IF k = 0 THEN {x}
    ELSE LET B == Ball(x, k - 1)
         IN  B \cup {y \in DOMAIN repoCommits : \E z \in B : Edge(z, y)}

\* parent-edge distance from x to its ancestor y
Distance(x, y) ==
    CHOOSE k \in 0..Cardinality(DOMAIN repoCommits) :
        y \in Ball(x, k) /\ \A j \in 0..(k - 1) : y \notin Ball(x, j)

\* C15: no getCommit call fails: the returned set holds, with an identifier at
\* distance d from the start, every identifier at a smaller distance.
C15_WholeLevelsFirst ==
    (pc = "done" /\ getCommitErrors = {} /\ IdOf(startHash) # Undefined) =>
        \A y \in targetHashes : \A z \in Ancestry(IdOf(startHash)) :
            Distance(IdOf(startHash), z) < Distance(IdOf(startHash), y)
                => z \in targetHashes

\* the cap cuts inside the second level: a commit at distance 2 is returned and
\* another one at distance 2 is not
C15_Witness ==
    /\ pc = "done"
    /\ getCommitErrors = {}
    /\ \E y \in targetHashes : Distance(IdOf(startHash), y) = 2
    /\ \E z \in Ancestry(IdOf(startHash)) \ targetHashes :
          Distance(IdOf(startHash), z) = 2

\* the set collectAncestorHashes returns for the selection's commitHash
TargetSet == CollectAlone(selection.commitHash, MAX_LOG_ENTRIES)

\* positions of the log whose commit's identifier is not in T; a commit without
\* an identifier is counted as not in T
OutsideOf(T) ==
    {i \in 1..Len(repoLog.commits) : IdOf(repoLog.commits[i].hash) \notin T}

\* positions of the log whose commit has an identifier, and it is not in T
IdentifiedOutsideOf(T) ==
    {i \in OutsideOf(T) : IdOf(repoLog.commits[i].hash) # Undefined}

\* C16 as claimed: target selection, non-empty head log: the result is empty when
\* no head commit is in T, and otherwise every head commit whose normalized
\* identifier is not in T.
C16_EveryCommitOutsideT ==
    (pc = "done" /\ IsTargetSelection /\ Len(repoLog.commits) > 0) =>
        IF LogIds \cap TargetSet = {} THEN result = <<>>
        ELSE IsRestriction(result, repoLog.commits, OutsideOf(TargetSet))

\* C16 as amended: the same, with the head commits whose hash is empty or blank
\* left out of the result.
C16_IdentifiedCommitsOutsideT ==
    (pc = "done" /\ IsTargetSelection /\ Len(repoLog.commits) > 0) =>
        /\ targetHashes = TargetSet
        /\ IF LogIds \cap TargetSet = {} THEN result = <<>>
           ELSE IsRestriction(result, repoLog.commits, IdentifiedOutsideOf(TargetSet))

\* a log with a commit in T and a commit without a hash
C16_Witness ==
    /\ pc = "done"
    /\ IsTargetSelection
    /\ LogIds \cap TargetSet # {}
    /\ Undefined \in LogIds
    /\ Cardinality(TargetSet) = 2

\* C17: days selection: repo.log is called exactly once, getCommit never, no
\* traversal state is touched, and the result is determined by the log and
\* sinceDate alone.
C17_DaysOnlyReadsLog ==
    selection.type = "days" =>
        /\ getCommitCalls = <<>>
        /\ visited = {} /\ queue = <<>> /\ targetHashes = {}
        /\ caller = "none"
        /\ \A i \in 1..Len(pending) : pending[i].query = "log"
        /\ logCalls <= 1
        /\ pc \in {"done", "failed"} => logCalls = 1
        /\ pc = "done" =>
              IsRestriction(result, repoLog.commits, OnOrAfter(selection.sinceDate))

\* a days result over a repository none of whose commits can be fetched, with a
\* day count that differs from sinceDate
C17_Witness ==
    /\ pc = "done"
    /\ selection.type = "days"
    /\ selection.days = 7
    /\ selection.sinceDate = 1
    /\ Len(result) = 1
    /\ Len(repoLog.commits) = 2
    /\ \A x \in DOMAIN repoCommits : ~repoCommits[x].ok

\* C18: target selection, repo.log resolves to an empty list: the empty list is
\* returned, without an error, and no traversal is started.
C18_EmptyLogNoTraversal ==
    (IsTargetSelection /\ repoLog.ok /\ Len(repoLog.commits) = 0) =>
        /\ getCommitCalls = <<>>
        /\ caller = "none"
        /\ pc \notin {"collect_entry", "collect_loop", "collect_await", "gcfs_filter", "failed"}
        /\ pc = "done" => result = <<>>

\* the call has returned, and its target is a commit that could be fetched
C18_Witness ==
    /\ pc = "done"
    /\ IsTargetSelection
    /\ repoLog.ok
    /\ Len(repoLog.commits) = 0
    /\ logCalls = 1
    /\ Target \in DOMAIN repoCommits
    /\ repoCommits[Target].ok

\* C19: within one getCommitsForSelection call at most one repository query is
\* outstanding, and a getCommit is issued only after the log fetch has completed.
C19_OneQueryAtATime ==
    selection.type # "none" =>
        /\ Len(pending) <= 1
        /\ getCommitCalls # <<>> =>
              /\ logCalls = 1
              /\ \A i \in 1..Len(pending) : pending[i].query # "log"
              /\ headCommits = repoLog.commits

\* the second getCommit of a call is outstanding
C19_Witness ==
    /\ selection.type # "none"
    /\ Len(getCommitCalls) = 2
    /\ pending = <<Query("getCommit", getCommitCalls[2])>>

\* getCommitsForSelection(repo, sel) run alone on a repository whose log resolves
GcfsAlone(sel) ==
    IF sel.type = "days" THEN DaysResult(repoLog.commits, sel.sinceDate)
    ELSE IF Len(repoLog.commits) = 0 THEN <<>>
    ELSE TargetResult(repoLog.commits, CollectAlone(sel.commitHash, MAX_LOG_ENTRIES))

\* what a finished call returned is what the same call returns when run alone
ReturnsAsAlone(call) ==
    call.pc = "done" =>
        IF call.selection.type = "none"
        THEN call.targetHashes = CollectAlone(call.startHash, call.maxCommits)
        ELSE call.result = GcfsAlone(call.selection)

\* the first call, as a record like the second
FirstCall ==
    [NoCall EXCEPT !.pc = pc, !.selection = selection, !.startHash = startHash,
                   !.maxCommits = maxCommits, !.targetHashes = targetHashes,
                   !.result = result]

\* C20: two calls on an unchanged repository, interleaved at their awaits in
\* every possible way: each returns what it returns when run alone, and a
\* rejected log fails that call whatever the other call does.
C20_CallsDoNotInterfere ==
    /\ ReturnsAsAlone(FirstCall)
    /\ ReturnsAsAlone(other)
    /\ pc = "failed" => ~repoLog.ok
    /\ other.pc = "failed" => ~repoLog.ok

\* both calls have finished a traversal; they visited a commit in common and
\* returned different sets
C20_Witness ==
    /\ pc = "done"
    /\ other.pc = "done"
    /\ targetHashes \cap other.targetHashes # {}
    /\ targetHashes # other.targetHashes
    /\ Cardinality(other.targetHashes) >= 2

\* x is a non-empty string without leading or trailing whitespace
IsTrimmed(x) ==
    /\ x # Undefined
    /\ Len(x) > 0
    /\ x[1] \notin Whitespace
    /\ x[Len(x)] \notin Whitespace

\* C21: every identifier the traversal holds (queue, visited set, getCommit
\* argument, returned set) is non-empty and trimmed, no two of the returned
\* identifiers name the same commit, and no commit is fetched twice.
C21_TrimmedIdentifiers ==
    /\ \A x \in visited \cup Range(queue) \cup targetHashes \cup Range(getCommitCalls) :
          IsTrimmed(x)
    /\ \A x \in targetHashes : \A y \in targetHashes : IdOf(x) = IdOf(y) => x = y
    /\ \A i \in 1..Len(getCommitCalls) : \A j \in 1..Len(getCommitCalls) :
          i # j => IdOf(getCommitCalls[i]) # IdOf(getCommitCalls[j])

\* a padded start, and a commit listed bare by one fetched commit and padded by
\* another
C21_Witness ==
    /\ pc = "done"
    /\ startHash # IdOf(startHash)
    /\ repoParentForms = <<"str", "strPad">>
    /\ \E y \in targetHashes : \E x1 \in targetHashes : \E x2 \in targetHashes :
          /\ x1 # x2
          /\ repoCommits[x1].ok /\ Len(repoCommits[x1].parents) >= 1
          /\ repoCommits[x1].parents[1] = y
          /\ repoCommits[x2].ok /\ Len(repoCommits[x2].parents) = 2
          /\ repoCommits[x2].parents[2] = y
          /\ Len(SelectSeq(getCommitCalls, LAMBDA h : h = y)) = 1

\* C22 as claimed: every commit returned by getCommitsForSelection, for every
\* selection variant, carries a non-empty trimmed hash.
C22_ReturnedHashesTrimmed ==
    (pc = "done" /\ selection.type # "none") =>
        \A i \in 1..Len(result) : IsTrimmed(result[i].hash)

\* C22 as amended: a returned hash that has content is trimmed; a tag or commit
\* selection returns no commit with an empty or blank hash, a days selection
\* returns such a commit as the log gave it.
C22_ReturnedHashesTrimmedOrBlank ==
    (pc = "done" /\ selection.type # "none") =>
        \A i \in 1..Len(result) :
            \/ IsTrimmed(result[i].hash)
            \/ /\ selection.type = "days"
               /\ IsBlank(result[i].hash)
               /\ result[i] \in Range(repoLog.commits)

\* a days result with a blank hash returned as it is and a padded hash returned
\* trimmed
C22_Witness ==
    /\ pc = "done"
    /\ selection.type = "days"
    /\ Len(result) = 2
    /\ IsBlank(result[1].hash)
    /\ IsTrimmed(result[2].hash)
    /\ result[2].hash # repoLog.commits[2].hash

\* the commits whose getCommit call of this traversal has returned a commit
Fetched == {x \in Range(getCommitCalls) : getCommitOk(x) /\ x # hash}

\* S and what is reachable from it over the parent edges of fetched commits
RECURSIVE ReachableVia(_, _)
ReachableVia(S, F) ==
    LET N == S \cup {y \in DOMAIN repoCommits : \E x \in S \cap F : Edge(x, y)}
    IN  IF N = S THEN S ELSE ReachableVia(N, F)

\* C23: at every step the visited set, and at the end the returned set, holds
\* only the normalized start and identifiers reachable from it over parent
\* edges that successful getCommit calls of this traversal have reported.
C23_OnlyAncestors ==
    caller = "direct" =>
        /\ visited \subseteq ReachableVia({IdOf(startHash)} \ {Undefined}, Fetched)
        /\ targetHashes \subseteq ReachableVia({IdOf(startHash)} \ {Undefined}, Fetched)
        /\ targetHashes \subseteq Ancestry(IdOf(startHash))

\* parents reported as objects that also carry a key naming no parent; the cap
\* left room, and a commit of the graph that is no ancestor is not returned
C23_Witness ==
    /\ pc = "done"
    /\ caller = "direct"
    /\ repoParentForms = <<"objHash", "objSha">>
    /\ Cardinality(targetHashes) = 2
    /\ maxCommits = MaxCap
    /\ \E x \in DOMAIN repoCommits : repoCommits[x].ok /\ x \notin targetHashes

\* C24: a start identifier with content and a cap of at least 1: the returned
\* set contains the normalized start, also when getCommit fails for it; and for
\* a tag or commit selection whose target is in the head log, no returned commit
\* is the target.
C24_StartIsCollected ==
    /\ ( /\ pc = "done"
         /\ caller # "none"
         /\ IdOf(startHash) # Undefined
         /\ maxCommits >= 1 )
       => IdOf(startHash) \in targetHashes
    /\ ( /\ pc = "done"
         /\ IsTargetSelection
         /\ Target # Undefined
         /\ Target \in LogIds )
       => \A i \in 1..Len(result) : IdOf(result[i].hash) # Target

\* the target cannot be fetched, it is in the head log, and the other head
\* commit is returned
C24_Witness ==
    /\ pc = "done"
    /\ IsTargetSelection
    /\ Target \in LogIds
    /\ Target \in getCommitErrors
    /\ Target \in targetHashes
    /\ Len(repoLog.commits) = 2
    /\ Len(result) = 1

====
